---- MODULE Spec2Model ----
(***************************************************************************)
(* Profitability dashboard (src/app.py): the fetcher fetch_quickfs_data,   *)
(* the normalizer process_historical_data, the "Load Financials" handler   *)
(* over st.session_state and the period-range slicing of the main page.    *)
(*                                                                         *)
(* JSON numbers are integers here; None and pandas' NaN are both the one   *)
(* absent value.  A ratio is kept as the fraction n/d the division is      *)
(* taken of, +/-infinity as a value of its own kind.                       *)
(***************************************************************************)
EXTENDS Integers, Sequences, FiniteSets, TLC

----------------------------------------------------------------------------
(* Bounds of the model *)

\* longest period axis (number of period-end dates) of a generated document
MaxYears == 3
\* longest quarterly array of a generated document
MaxQuarters == 5
\* number of replies the upstream has ready for one fetch call
MaxResponses == 2

----------------------------------------------------------------------------
(* Cell values *)

Absent == [k |-> "none", n |-> 0, d |-> 1]
Num(x) == [k |-> "num", n |-> x, d |-> 1]
Frac(x, y) == [k |-> "num", n |-> x, d |-> y]
Inf(s) == [k |-> "inf", n |-> s, d |-> 0]
\* the TypeError a Python expression over None raises
Raise == [k |-> "raise", n |-> 0, d |-> 1]

IsAbsent(v) == v.k = "none"
IsNum(v) == v.k = "num"
IsInf(v) == v.k = "inf"

Abs(x) == IF x < 0 THEN -x ELSE x
Sign(x) == IF x < 0 THEN -1 ELSE 1

\* Python `v or 0` on a number-or-None
OrZero(v) == IF IsNum(v) /\ v.n # 0 THEN v.n ELSE 0

\* pd.to_numeric(errors='coerce') on one cell: None becomes NaN
ToNumeric(v) == IF IsNum(v) THEN v ELSE Absent

\* Series.fillna(0) on one cell
FillNa0(v) == IF IsAbsent(v) THEN Num(0) ELSE v

\* Series - Series on one cell: NaN propagates
PdSub(a, b) == IF IsNum(a) /\ IsNum(b) THEN Num(a.n - b.n) ELSE Absent

\* Series + Series on one cell
PdAdd(a, b) == IF IsNum(a) /\ IsNum(b) THEN Num(a.n + b.n) ELSE Absent

\* Series.abs() on one cell
PdAbs(a) == IF IsNum(a) THEN Num(Abs(a.n)) ELSE Absent

\* Series / Series on one cell (float division: x/0 is +/-inf, 0/0 is NaN)
PdDiv(a, b) ==
  IF ~(IsNum(a) /\ IsNum(b)) THEN Absent
  ELSE IF b.n = 0 THEN (IF a.n = 0 THEN Absent ELSE Inf(Sign(a.n)))
  ELSE Frac(a.n, b.n)

----------------------------------------------------------------------------
(* JSON entries of a mapping: a key is missing, or holds a list, null, or  *)
(* a truthy value that is no list ("scalar")                               *)

Missing == [t |-> "missing", a |-> <<>>]
Null == [t |-> "null", a |-> <<>>]
Scalar == [t |-> "scalar", a |-> <<>>]
List(s) == [t |-> "list", a |-> s]
\* a single number, as the ttm block holds them
Number(x) == [t |-> "scalar", a |-> <<Num(x)>>]

\* Python truthiness of data_dict[k]
Truthy(e) == (e.t = "list" /\ Len(e.a) > 0) \/ e.t = "scalar"

MetricKeys ==
  {"revenue", "gross_profit", "operating_income", "ebitda", "net_income",
   "eps_diluted", "income_tax", "cf_cfo", "cfo", "cash_flow_operating",
   "capex", "capital_expenditures", "fcf", "free_cash_flow", "total_equity",
   "total_stockholders_equity", "total_assets", "total_current_liabilities",
   "total_debt"}

AllKeys == MetricKeys \cup {"period_end_date", "fiscal_year"}

\* a mapping with the given entries, every other key missing
Mapping(ov) == [k \in AllKeys |-> IF k \in DOMAIN ov THEN ov[k] ELSE Missing]

----------------------------------------------------------------------------
(* The document returned under the reply's "data" key *)

NoMapping == Mapping(<<>>)
MissingMap == [t |-> "missing", m |-> NoMapping]
NullMap == [t |-> "null", m |-> NoMapping]
Dict(ov) == [t |-> "dict", m |-> Mapping(ov)]

Financials(a, q, t) == [t |-> "dict", annual |-> a, quarterly |-> q, ttm |-> t]
MissingFinancials ==
  [t |-> "missing", annual |-> MissingMap, quarterly |-> MissingMap, ttm |-> MissingMap]
NullFinancials ==
  [t |-> "null", annual |-> MissingMap, quarterly |-> MissingMap, ttm |-> MissingMap]

Metadata(nm) == [t |-> "dict", name |-> nm]
MissingMetadata == [t |-> "missing", name |-> ""]
NullMetadata == [t |-> "null", name |-> ""]

Document(md, fin) == [t |-> "dict", metadata |-> md, financials |-> fin]
\* the reply {"data": null}
NullDocument == [t |-> "null", metadata |-> MissingMetadata, financials |-> MissingFinancials]

\* a period-end date "Y-12-31" as its '-'-separated components
Date(y) == <<y, 12, 31>>

\* index labels of the table: str(d).split('-')[0], and the literal "TTM"
FY(y) == [kind |-> "FY", year |-> y]
TTM == [kind |-> "TTM", year |-> 0]
YearLabel(d) == FY(d[1])

----------------------------------------------------------------------------
(* process_historical_data and its helpers *)

\* a lookup that stops at the first alias that is a key, empty or not
RECURSIVE safe_get_list_first_key(_, _)
safe_get_list_first_key(data_dict, keys) ==
  IF keys = <<>> THEN List(<<>>)
  ELSE IF data_dict[Head(keys)].t = "list" \/ data_dict[Head(keys)].t = "scalar"
    THEN data_dict[Head(keys)]
  ELSE safe_get_list_first_key(data_dict, Tail(keys))

\* first alias whose entry is truthy, [] when none is
RECURSIVE safe_get_list(_, _)
safe_get_list(data_dict, keys) ==
  IF keys = <<>> THEN List(<<>>)
  ELSE IF Truthy(data_dict[Head(keys)]) THEN data_dict[Head(keys)]
  ELSE safe_get_list(data_dict, Tail(keys))

\* [None]*n
Nones(n) == [i \in 1..n |-> Absent]

\* an alignment that pads on the left and keeps the last l entries
align_left(arr, l) ==
  IF Len(arr) < l THEN Nones(l - Len(arr)) \o arr
  ELSE SubSeq(arr, Len(arr) - l + 1, Len(arr))

\* (arr + [None]*(l-len(arr)))[:l] if len(arr) < l else arr[:l]
align(arr, l) ==
  IF Len(arr) < l THEN SubSeq(arr \o Nones(l - Len(arr)), 1, l)
  ELSE SubSeq(arr, 1, l)

\* arr[-4:]
LastFour(arr) == SubSeq(arr, IF Len(arr) > 4 THEN Len(arr) - 3 ELSE 1, Len(arr))

RECURSIVE SumSeq(_)
SumSeq(s) == IF s = <<>> THEN 0 ELSE Head(s).n + SumSeq(Tail(s))

\* sum(arr[-4:]) if arr and len(arr) >= 4 else None; adding None raises
get_ttm_sum(arr) ==
  IF Len(arr) >= 4
  THEN IF \E i \in 1..Len(LastFour(arr)) : ~IsNum(LastFour(arr)[i]) THEN Raise
       ELSE Num(SumSeq(LastFour(arr)))
  ELSE Absent

\* arr[-1] if arr and len(arr) > 0 else None
get_last(arr) == IF Len(arr) > 0 THEN arr[Len(arr)] ELSE Absent

\* a division that only guards against None
safe_div_unguarded(n, d) ==
  IF IsNum(n) /\ IsNum(d)
  THEN IF d.n = 0 THEN Inf(Sign(n.n)) ELSE Frac(n.n, d.n)
  ELSE Absent

\* n / d if (n is not None and d) else None
safe_div(n, d) == IF IsNum(n) /\ IsNum(d) /\ d.n # 0 THEN Frac(n.n, d.n) ELSE Absent

cols_to_keep ==
  {"Revenue", "Gross Profit", "EBITDA", "Operating Income (EBIT)", "NOPAT",
   "Income Tax", "Net Income", "EPS (Diluted)", "Operating Cash Flow",
   "Free Cash Flow", "Return on Equity (ROE)",
   "Return on Invested Capital (ROIC)", "Return on Capital Employed (ROCE)",
   "Cash Return on Invested Capital (CROIC)"}

\* alias lists of the annual columns
AnnualAliases ==
  [Revenue |-> <<"revenue">>,
   GrossProfit |-> <<"gross_profit">>,
   OperatingIncome |-> <<"operating_income">>,
   EBITDA |-> <<"ebitda">>,
   NetIncome |-> <<"net_income">>,
   EPS |-> <<"eps_diluted">>,
   IncomeTax |-> <<"income_tax">>,
   OperatingCashFlow |-> <<"cf_cfo", "cfo", "cash_flow_operating">>,
   CapEx |-> <<"capex", "capital_expenditures">>,
   FCFReported |-> <<"fcf", "free_cash_flow">>,
   TotalEquity |-> <<"total_equity", "total_stockholders_equity">>,
   TotalAssets |-> <<"total_assets">>,
   CurrentLiabilities |-> <<"total_current_liabilities">>,
   TotalDebt |-> <<"total_debt">>]

\* alias lists of the quarterly columns
QuarterlyAliases ==
  [Revenue |-> <<"revenue">>,
   GrossProfit |-> <<"gross_profit">>,
   OperatingIncome |-> <<"operating_income">>,
   EBITDA |-> <<"ebitda">>,
   NetIncome |-> <<"net_income">>,
   EPS |-> <<"eps_diluted">>,
   IncomeTax |-> <<"income_tax">>,
   OperatingCashFlow |-> <<"cf_cfo", "cfo">>,
   CapEx |-> <<"capex">>,
   TotalEquity |-> <<"total_equity", "total_stockholders_equity">>,
   TotalAssets |-> <<"total_assets">>,
   CurrentLiabilities |-> <<"total_current_liabilities">>,
   TotalDebt |-> <<"total_debt">>]

FlowColumns ==
  {"Revenue", "GrossProfit", "OperatingIncome", "EBITDA", "NetIncome", "EPS",
   "IncomeTax", "OperatingCashFlow", "CapEx"}

\* the lists extracted from the annual mapping, one per column
AnnualLists(annual) ==
  [c \in DOMAIN AnnualAliases |-> safe_get_list(annual, AnnualAliases[c])]

\* the lists extracted from the quarterly mapping, one per column
QuarterlyLists(quarterly) ==
  [c \in DOMAIN QuarterlyAliases |-> safe_get_list(quarterly, QuarterlyAliases[c])]

\* a NOPAT without the fillna(0): an absent tax makes it absent
AnnualNopat_NoFill(op, tax) == PdSub(op, tax)

\* df['NOPAT'] = df['Operating Income (EBIT)'] - df['Income Tax'].fillna(0)
AnnualNopat(op, tax) == PdSub(op, FillNa0(tax))

\* a free cash flow that keeps a reported 0
AnnualFcf_KeepZero(reported, cfo, capex) ==
  IF IsNum(reported) THEN reported ELSE PdSub(cfo, PdAbs(capex))

\* np.where(reported.notna() & (reported != 0), reported, cfo - capex.abs())
AnnualFcf(reported, cfo, capex) ==
  IF IsNum(reported) /\ reported.n # 0 THEN reported
  ELSE PdSub(cfo, PdAbs(capex))

\* df['Invested Capital'] = debt.fillna(0) + equity.fillna(0)
AnnualInvestedCapital(debt, equity) == PdAdd(FillNa0(debt), FillNa0(equity))

\* df['Capital Employed'] = df['Total Assets'] - df['Current Liabilities']
AnnualCapitalEmployed(assets, liab) == PdSub(assets, liab)

\* row i of the annual frame, display columns only
AnnualRow(lists, length, i) ==
  LET cell(c) == ToNumeric(align(lists[c].a, length)[i])
      op == cell("OperatingIncome")
      nopat == AnnualNopat(op, cell("IncomeTax"))
      fcf == AnnualFcf(cell("FCFReported"), cell("OperatingCashFlow"), cell("CapEx"))
      invcap == AnnualInvestedCapital(cell("TotalDebt"), cell("TotalEquity"))
      capemp == AnnualCapitalEmployed(cell("TotalAssets"), cell("CurrentLiabilities"))
  IN  [c \in cols_to_keep |->
        CASE c = "Revenue" -> cell("Revenue")
          [] c = "Gross Profit" -> cell("GrossProfit")
          [] c = "EBITDA" -> cell("EBITDA")
          [] c = "Operating Income (EBIT)" -> op
          [] c = "NOPAT" -> nopat
          [] c = "Income Tax" -> cell("IncomeTax")
          [] c = "Net Income" -> cell("NetIncome")
          [] c = "EPS (Diluted)" -> cell("EPS")
          [] c = "Operating Cash Flow" -> cell("OperatingCashFlow")
          [] c = "Free Cash Flow" -> fcf
          [] c = "Return on Equity (ROE)" -> PdDiv(cell("NetIncome"), cell("TotalEquity"))
          [] c = "Return on Invested Capital (ROIC)" -> PdDiv(nopat, invcap)
          [] c = "Return on Capital Employed (ROCE)" -> PdDiv(op, capemp)
          [] c = "Cash Return on Invested Capital (CROIC)" -> PdDiv(fcf, invcap)]

\* base entries that take a metric's number from the ttm block when it has one
TtmBase_PreferBlock(financials) ==
  LET qlists == QuarterlyLists(financials.quarterly.m)
      block == financials.ttm.m
  IN  [c \in DOMAIN QuarterlyAliases |->
        IF c \in FlowColumns
        THEN IF block[QuarterlyAliases[c][1]].t = "scalar"
                  /\ block[QuarterlyAliases[c][1]].a # <<>>
             THEN block[QuarterlyAliases[c][1]].a[1]
             ELSE get_ttm_sum(qlists[c].a)
        ELSE get_last(qlists[c].a)]

\* ttm_row's base entries, from the financials of the document: sums of the
\* quarterly flows, last values of the quarterly balance sheet
TtmBase(financials) ==
  LET qlists == QuarterlyLists(financials.quarterly.m)
  IN  [c \in DOMAIN QuarterlyAliases |->
        IF c \in FlowColumns THEN get_ttm_sum(qlists[c].a) ELSE get_last(qlists[c].a)]

\* ttm_row['NOPAT']: op_ttm - (tax_ttm or 0), None without op_ttm
TtmNopat(op, tax) == IF IsNum(op) THEN Num(op.n - OrZero(tax)) ELSE Absent

\* ttm_row['Free Cash Flow']: cfo - abs(capex) when both are not None
TtmFcf(cfo, capex) ==
  IF IsNum(cfo) /\ IsNum(capex) THEN Num(cfo.n - Abs(capex.n)) ELSE Absent

\* inv_cap = (debt or 0) + (equity or 0)
TtmInvCap(debt, equity) == OrZero(debt) + OrZero(equity)

\* cap_emp = (assets or 0) - (liab or 0)
TtmCapEmp(assets, liab) == OrZero(assets) - OrZero(liab)

\* the TTM row, display columns only
TtmRow(b) ==
  LET nopat == TtmNopat(b.OperatingIncome, b.IncomeTax)
      fcf == TtmFcf(b.OperatingCashFlow, b.CapEx)
      inv_cap == TtmInvCap(b.TotalDebt, b.TotalEquity)
      cap_emp == TtmCapEmp(b.TotalAssets, b.CurrentLiabilities)
  IN  [c \in cols_to_keep |->
        CASE c = "Revenue" -> b.Revenue
          [] c = "Gross Profit" -> b.GrossProfit
          [] c = "EBITDA" -> b.EBITDA
          [] c = "Operating Income (EBIT)" -> b.OperatingIncome
          [] c = "NOPAT" -> nopat
          [] c = "Income Tax" -> b.IncomeTax
          [] c = "Net Income" -> b.NetIncome
          [] c = "EPS (Diluted)" -> b.EPS
          [] c = "Operating Cash Flow" -> b.OperatingCashFlow
          [] c = "Free Cash Flow" -> fcf
          [] c = "Return on Equity (ROE)" -> safe_div(b.NetIncome, b.TotalEquity)
          [] c = "Return on Invested Capital (ROIC)" -> safe_div(nopat, Num(inv_cap))
          [] c = "Return on Capital Employed (ROCE)" -> safe_div(b.OperatingIncome, Num(cap_emp))
          [] c = "Cash Return on Invested Capital (CROIC)" -> safe_div(fcf, Num(inv_cap))]

\* results of process_historical_data: (df, None) or (None, message)
NoError == "None"
NoDates == "No historical dates found."
ProcessingError == "Processing Error"
NoneDf == [isNone |-> TRUE, index |-> <<>>, rows |-> <<>>]
Frame(idx, rws) == [isNone |-> FALSE, index |-> idx, rows |-> rws]
Failed(msg) == [df |-> NoneDf, err |-> msg]

\* annual.get("period_end_date", annual.get("fiscal_year", []))
GetDates(annual) ==
  IF annual["period_end_date"].t # "missing" THEN annual["period_end_date"]
  ELSE IF annual["fiscal_year"].t # "missing" THEN annual["fiscal_year"]
  ELSE List(<<>>)

process_historical_data(raw_data) ==
  IF raw_data.t = "null" \/ raw_data.financials.t = "null"
     \/ raw_data.financials.annual.t = "null"
  THEN Failed(ProcessingError)
  ELSE
    LET annual == raw_data.financials.annual.m
        quarterly == raw_data.financials.quarterly
        dates == GetDates(annual)
        lists == AnnualLists(annual)
        length == Len(dates.a)
        qlists == QuarterlyLists(quarterly.m)
        base == TtmBase(raw_data.financials)
    IN  IF ~Truthy(dates) THEN Failed(NoDates)
        ELSE IF dates.t = "scalar" THEN Failed(ProcessingError)
        ELSE IF \E c \in DOMAIN lists : lists[c].t # "list" THEN Failed(ProcessingError)
        ELSE IF quarterly.t = "null" THEN Failed(ProcessingError)
        ELSE IF \E c \in DOMAIN qlists : qlists[c].t # "list" THEN Failed(ProcessingError)
        ELSE IF \E c \in DOMAIN base : base[c] = Raise THEN Failed(ProcessingError)
        ELSE [df |-> Frame([i \in 1..length |-> YearLabel(dates.a[i])] \o <<TTM>>,
                           [i \in 1..length |-> AnnualRow(lists, length, i)]
                             \o <<TtmRow(base)>>),
              err |-> NoError]

----------------------------------------------------------------------------
(* fetch_quickfs_data *)

\* one reply of the upstream to requests.get: an exception, or a status and a body
HttpReply(st, bd) == [exc |-> FALSE, status |-> st, body |-> bd]
NoBody == [json |-> FALSE, hasData |-> FALSE, data |-> NullDocument]
JsonNoData == [json |-> TRUE, hasData |-> FALSE, data |-> NullDocument]
JsonData(doc) == [json |-> TRUE, hasData |-> TRUE, data |-> doc]
NetworkException == [exc |-> TRUE, status |-> 0, body |-> NoBody]

\* the error strings: None, f"API Error: {status}", "Invalid data received.", str(e)
NoFetchError == [msg |-> "None", status |-> 0]
ApiError(st) == [msg |-> "API Error", status |-> st]
InvalidData == [msg |-> "Invalid data received.", status |-> 0]
ExceptionText == [msg |-> "str(e)", status |-> 0]

\* lines 128-133 on one reply: the status check, r.json(), the "data" check
HandleReply(r) ==
  IF r.exc THEN [doc |-> NullDocument, err |-> ExceptionText]
  ELSE IF r.status # 200 THEN [doc |-> NullDocument, err |-> ApiError(r.status)]
  ELSE IF ~r.body.json THEN [doc |-> NullDocument, err |-> ExceptionText]
  ELSE IF ~r.body.hasData THEN [doc |-> NullDocument, err |-> InvalidData]
  ELSE [doc |-> r.body.data, err |-> NoFetchError]

\* HandleReply without its status check: every reply's body is parsed
HandleReplyAnyStatus(r) ==
  IF r.exc \/ ~r.body.json THEN [doc |-> NullDocument, err |-> ExceptionText]
  ELSE IF ~r.body.hasData THEN [doc |-> NullDocument, err |-> InvalidData]
  ELSE [doc |-> r.body.data, err |-> NoFetchError]

\* a fetch that parses the body whatever the status
fetch_ignoring_status(replies) ==
  [doc |-> HandleReplyAnyStatus(replies[1]).doc,
   err |-> HandleReplyAnyStatus(replies[1]).err, requests |-> 1]

\* a fetch that asks again after a 5xx reply, twice at most
RECURSIVE FetchAttempt(_, _)
FetchAttempt(replies, k) ==
  IF ~replies[k].exc /\ replies[k].status \in 500..599 /\ k <= 2 /\ k < Len(replies)
  THEN FetchAttempt(replies, k + 1)
  ELSE [doc |-> HandleReply(replies[k]).doc, err |-> HandleReply(replies[k]).err,
        requests |-> k]
fetch_retrying_5xx(replies) == FetchAttempt(replies, 1)

\* the call consumes the upstream's replies in order; `requests` counts the
\* requests.get calls it made: one, whatever the reply
fetch_quickfs_data(replies) ==
  [doc |-> HandleReply(replies[1]).doc, err |-> HandleReply(replies[1]).err,
   requests |-> 1]

----------------------------------------------------------------------------
(* The page: period selection and slicing *)

Max(a, b) == IF a > b THEN a ELSE b

\* list.index(x): position of the first occurrence
IndexOf(seq, x) == CHOOSE i \in 1..Len(seq) : seq[i] = x /\ \A j \in 1..(i - 1) : seq[j] # x

NoView ==
  [shown |-> FALSE, exception |-> FALSE, options |-> <<>>,
   start_period |-> TTM, end_period |-> TTM, df_slice |-> NoneDf]

\* df.iloc[s_idx : e_idx + 1] for the chosen periods
Slice(df, start_period, end_period) ==
  LET s_idx == IndexOf(df.index, start_period)
      e_idx == IndexOf(df.index, end_period)
  IN  Frame(SubSeq(df.index, s_idx, e_idx), SubSeq(df.rows, s_idx, e_idx))

\* default_end = len(all_periods) - 1; default_start = max(0, default_end - 10)
DefaultStart(all_periods) == all_periods[Max(0, (Len(all_periods) - 1) - 10) + 1]
DefaultEnd(all_periods) == all_periods[Len(all_periods)]

ViewOf(df, start_period, end_period) ==
  [shown |-> TRUE, exception |-> FALSE, options |-> df.index,
   start_period |-> start_period, end_period |-> end_period,
   df_slice |-> Slice(df, start_period, end_period)]

\* the main page of one script run: the selectboxes keep their value while
\* their options are the same, and fall back to their default index otherwise
Render(loaded, df, meta, prev) ==
  IF loaded /\ ~df.isNone
  THEN IF meta.t = "null"
       THEN [NoView EXCEPT !.exception = TRUE]
       ELSE IF prev.shown /\ prev.options = df.index
       THEN ViewOf(df, prev.start_period, prev.end_period)
       ELSE ViewOf(df, DefaultStart(df.index), DefaultEnd(df.index))
  ELSE NoView

----------------------------------------------------------------------------
(* Generated inputs *)

\* the period axis of n fiscal years, oldest first: 2021-12-31, 2022-12-31, ...
Dates(n) == [i \in 1..n |-> Date(2020 + i)]
\* the same axis under the fallback key: fiscal years as plain numbers
FiscalYears(n) == [i \in 1..n |-> <<2020 + i>>]

\* period-end dates of 52/53-week fiscal years: 2021-01-02, 2022-01-01,
\* 2022-12-31 (two fiscal years end in calendar year 2022)
WeekBasedDates == <<<<2021, 1, 2>>, <<2022, 1, 1>>, <<2022, 12, 31>>>>

\* all arrays of length lo..hi over the cells of vals
Arrays(vals, lo, hi) == UNION {[1..n -> vals] : n \in lo..hi}

Cells == {Absent, Num(0), Num(40), Num(200), Num(-40)}
OneCell == {List(<<v>>) : v \in Cells}

\* quarterly flow arrays: none, too short, four quarters, more than four, a gap
QuarterlyFlows ==
  {Missing, List(<<Num(10), Num(10), Num(10)>>)}
    \cup {List(<<Num(v), Num(0), Num(0), Num(0)>>) : v \in {0, 40, 200, -40}}
    \cup {List(<<Num(7), Num(50), Num(50), Num(50), Num(50)>>),
          List(<<Num(10), Absent, Num(10), Num(10)>>)}
\* quarterly balance-sheet arrays: the last value counts
QuarterlyLevels ==
  {Missing, List(<<Num(7), Absent>>), List(<<Num(7), Num(0)>>),
   List(<<Num(0), Num(40)>>), List(<<Num(200)>>), List(<<Num(-40)>>)}

OneYear == "period_end_date" :> List(Dates(1))

Doc(a, q, t) == Document(Metadata("Alpha"), Financials(Dict(a), Dict(q), t))

\* one fiscal year, the named annual keys varying over single cells
AnnualFamily(keys) == {Doc(f @@ OneYear, <<>>, MissingMap) : f \in [keys -> OneCell]}

\* one fiscal year, the named quarterly keys varying
QuarterlyFamily(flows, levels) ==
  {Doc(OneYear, f @@ g, MissingMap) :
     f \in [flows -> QuarterlyFlows], g \in [levels -> QuarterlyLevels]}

\* documents for the derived metrics of a row
RowDocs ==
  AnnualFamily({"operating_income", "income_tax", "total_debt", "total_equity"})
    \cup AnnualFamily({"net_income", "total_equity"})
    \cup AnnualFamily({"operating_income", "total_assets", "total_current_liabilities"})
    \cup AnnualFamily({"fcf", "cf_cfo", "capex", "total_equity"})
    \cup QuarterlyFamily({"operating_income", "income_tax"}, {"total_debt", "total_equity"})
    \cup QuarterlyFamily({"net_income"}, {"total_equity"})
    \cup QuarterlyFamily({"operating_income"}, {"total_assets", "total_current_liabilities"})
    \cup QuarterlyFamily({"cf_cfo", "capex", "fcf"}, {"total_equity"})

\* documents for the quarterly sum and the ttm block
TtmDocs ==
  {Doc(OneYear, "revenue" :> List(q), t) :
     q \in Arrays({Absent, Num(28), Num(33)}, 0, MaxQuarters),
     t \in {MissingMap, Dict("revenue" :> Number(999))}}

\* documents for the period axis and the alignment of an annual array
AlignDocs ==
  {Doc(d @@ ("revenue" :> List(arr)), <<>>, MissingMap) :
     arr \in Arrays({Absent, Num(100), Num(110)}, 0, MaxYears + 1),
     d \in UNION {{"period_end_date" :> List(Dates(n)), "fiscal_year" :> List(FiscalYears(n))}
                    : n \in 1..MaxYears}}

\* documents for the alias lists
AliasChoices(v, n) == {Missing, Null, List(<<>>), List([i \in 1..n |-> Num(v)])}
AliasDocs ==
  UNION {{Doc(("period_end_date" :> List(Dates(n))) @@ ("cf_cfo" :> a) @@ ("cfo" :> b)
                @@ ("cash_flow_operating" :> c) @@ ("revenue" :> r),
              ("cf_cfo" :> a) @@ ("cfo" :> b), MissingMap) :
            a \in AliasChoices(1, n), b \in AliasChoices(2, n),
            c \in AliasChoices(3, n), r \in {Missing, List(<<>>)}}
         : n \in 1..MaxYears}

\* documents of unexpected structure
OddDocs ==
  {NullDocument,
   Document(Metadata("Alpha"), MissingFinancials),
   Document(Metadata("Alpha"), NullFinancials),
   Document(Metadata("Alpha"), Financials(NullMap, MissingMap, MissingMap)),
   Document(Metadata("Alpha"), Financials(MissingMap, MissingMap, MissingMap)),
   Document(MissingMetadata, Financials(Dict(OneYear), NullMap, MissingMap)),
   Doc(<<>>, <<>>, MissingMap),
   Doc("period_end_date" :> List(<<>>), <<>>, MissingMap),
   Doc("period_end_date" :> Null, <<>>, MissingMap),
   Doc("period_end_date" :> Scalar, <<>>, MissingMap),
   Doc(("period_end_date" :> List(<<>>)) @@ ("fiscal_year" :> List(FiscalYears(1))),
       <<>>, MissingMap),
   Doc(("period_end_date" :> List(WeekBasedDates))
         @@ ("revenue" :> List(<<Num(100), Num(110), Num(0)>>)), <<>>, MissingMap),
   Doc(OneYear @@ ("revenue" :> Scalar), <<>>, MissingMap),
   Doc(OneYear, "revenue" :> Scalar, MissingMap)}

DocSet == RowDocs \cup TtmDocs \cup AlignDocs \cup AliasDocs \cup OddDocs


\* documents a session loads: the documented example shape over the dates ds
GoodDoc(ds, md) ==
  Document(md,
    Financials(
      Dict(("period_end_date" :> List(ds))
           @@ ("revenue" :> List([i \in 1..Len(ds) |->
                                    IF i = 3 THEN Absent ELSE Num(90 + 10 * i)]))
           @@ ("operating_income" :> List([i \in 1..Len(ds) |-> Num(200)]))
           @@ ("income_tax" :> List([i \in 1..Len(ds) |-> Num(40)]))),
      Dict("revenue" :> List(<<Num(28), Num(30), Num(31), Num(33)>>)),
      MissingMap))

SessionDocs ==
  {GoodDoc(Dates(n), md) : n \in 1..MaxYears, md \in {Metadata("Alpha"), Metadata("Beta")}}
    \cup {GoodDoc(WeekBasedDates, Metadata("Gamma")),
          GoodDoc(Dates(1), NullMetadata), GoodDoc(Dates(1), MissingMetadata),
          Document(Metadata("Alpha"), NullFinancials),
          Doc(<<>>, <<>>, MissingMap),
          Doc(OneYear, "revenue" :> List(<<Num(28), Num(30), Absent, Num(33)>>), MissingMap)}

\* what the upstream answers to a first request
FirstReplies ==
  {HttpReply(st, NoBody) : st \in {400, 404, 500, 503}}
    \cup {NetworkException, HttpReply(200, NoBody), HttpReply(200, JsonNoData),
          HttpReply(200, JsonData(NullDocument))}
    \cup {HttpReply(200, JsonData(doc)) : doc \in SessionDocs}

\* what it would answer to every further request of the same call
LaterReplies == {HttpReply(500, NoBody), HttpReply(200, JsonData(GoodDoc(Dates(1), Metadata("Alpha"))))}

ReplySeqs ==
  {<<r>> \o [i \in 1..(MaxResponses - 1) |-> l] : r \in FirstReplies, l \in LaterReplies}

----------------------------------------------------------------------------
(* State *)

VARIABLES
  dark_mode,     \* st.session_state.dark_mode
  data_loaded,   \* st.session_state.data_loaded
  processed_df,  \* st.session_state.processed_df
  meta_data,     \* st.session_state.meta_data
  view,          \* the main page of the last script run
  replies,       \* the upstream's replies during the last load
  fetched,       \* what fetch_quickfs_data returned in the last load
  raw_data,      \* the argument of process_historical_data
  proc           \* what process_historical_data returned, Pending before it ran

vars == <<dark_mode, data_loaded, processed_df, meta_data, view, replies, fetched,
          raw_data, proc>>

Pending == [df |-> NoneDf, err |-> "pending"]
NotFetched == [doc |-> NullDocument, err |-> NoFetchError, requests |-> 0]
EmptyMetadata == Metadata("")

\* the session state of a fresh session
SessionInit ==
  /\ dark_mode = FALSE
  /\ data_loaded = FALSE
  /\ processed_df = NoneDf
  /\ meta_data = EmptyMetadata
  /\ view = NoView

Init ==
  /\ SessionInit
  /\ replies = <<>>
  /\ fetched = NotFetched
  /\ raw_data = NullDocument
  /\ proc = Pending

\* raw_data.get("metadata", {})
GetMetadata(doc) == IF doc.metadata.t = "missing" THEN EmptyMetadata ELSE doc.metadata

\* a handler that stores the metadata before it looks at proc_error
Load_MetadataFirst(rs) ==
  LET f == fetch_quickfs_data(rs)
      p == process_historical_data(f.doc)
      failedFetch == f.err # NoFetchError
      failedProc == p.err # NoError
      loaded == IF failedFetch THEN FALSE ELSE IF failedProc THEN data_loaded ELSE TRUE
      df == IF failedFetch \/ failedProc THEN processed_df ELSE p.df
      meta == IF failedFetch \/ f.doc.t = "null" THEN meta_data ELSE GetMetadata(f.doc)
  IN  /\ replies' = rs
      /\ fetched' = f
      /\ raw_data' = f.doc
      /\ proc' = IF failedFetch THEN Pending ELSE p
      /\ data_loaded' = loaded
      /\ processed_df' = df
      /\ meta_data' = meta
      /\ view' = Render(loaded, df, meta, view)
      /\ UNCHANGED dark_mode

\* a handler that drops the table when the fetch fails
Load_ClearOnFetchError(rs) ==
  LET f == fetch_quickfs_data(rs)
      p == process_historical_data(f.doc)
      failedFetch == f.err # NoFetchError
      failedProc == p.err # NoError
      loaded == IF failedFetch THEN FALSE ELSE IF failedProc THEN data_loaded ELSE TRUE
      df == IF failedFetch THEN NoneDf ELSE IF failedProc THEN processed_df ELSE p.df
      meta == IF failedFetch \/ failedProc THEN meta_data ELSE GetMetadata(f.doc)
  IN  /\ replies' = rs
      /\ fetched' = f
      /\ raw_data' = f.doc
      /\ proc' = IF failedFetch THEN Pending ELSE p
      /\ data_loaded' = loaded
      /\ processed_df' = df
      /\ meta_data' = meta
      /\ view' = Render(loaded, df, meta, view)
      /\ UNCHANGED dark_mode

\* the "Load Financials" button: fetch, normalize, store, then the page
Load(rs) ==
  LET f == fetch_quickfs_data(rs)
      p == process_historical_data(f.doc)
      failedFetch == f.err # NoFetchError
      failedProc == p.err # NoError
      loaded == IF failedFetch THEN FALSE ELSE IF failedProc THEN data_loaded ELSE TRUE
      df == IF failedFetch \/ failedProc THEN processed_df ELSE p.df
      meta == IF failedFetch \/ failedProc THEN meta_data ELSE GetMetadata(f.doc)
  IN  /\ replies' = rs
      /\ fetched' = f
      /\ raw_data' = f.doc
      /\ proc' = IF failedFetch THEN Pending ELSE p
      /\ data_loaded' = loaded
      /\ processed_df' = df
      /\ meta_data' = meta
      /\ view' = Render(loaded, df, meta, view)
      /\ UNCHANGED dark_mode

LoadFinancials == \E rs \in ReplySeqs : Load(rs)

\* the sidebar toggle's on_change callback, then the page
toggle_dark_mode ==
  /\ dark_mode' = ~dark_mode
  /\ view' = Render(data_loaded, processed_df, meta_data, view)
  /\ UNCHANGED <<data_loaded, processed_df, meta_data, replies, fetched, raw_data, proc>>

\* the "Start Date" selectbox: the "End Date" options change with it
SelectStart ==
  /\ view.shown
  /\ \E sp \in {view.options[i] : i \in 1..Len(view.options)} :
       /\ sp # view.start_period
       /\ view' = ViewOf(processed_df, sp, DefaultEnd(view.options))
  /\ UNCHANGED <<dark_mode, data_loaded, processed_df, meta_data, replies, fetched,
                 raw_data, proc>>

\* the "End Date" selectbox: end_options = all_periods[s_idx:]
SelectEnd ==
  /\ view.shown
  /\ \E i \in IndexOf(view.options, view.start_period)..Len(view.options) :
       view' = ViewOf(processed_df, view.start_period, view.options[i])
  /\ UNCHANGED <<dark_mode, data_loaded, processed_df, meta_data, replies, fetched,
                 raw_data, proc>>

Next == LoadFinancials \/ toggle_dark_mode \/ SelectStart \/ SelectEnd

Spec == Init /\ [][Next]_vars

----------------------------------------------------------------------------
(* The normalizer alone, over the generated documents *)

InitNormalize ==
  /\ SessionInit
  /\ replies = <<>>
  /\ fetched = NotFetched
  /\ raw_data \in DocSet
  /\ proc = Pending

Normalize ==
  /\ proc = Pending
  /\ proc' = process_historical_data(raw_data)
  /\ UNCHANGED <<dark_mode, data_loaded, processed_df, meta_data, view, replies,
                 fetched, raw_data>>

SpecNormalize == InitNormalize /\ [][Normalize]_vars

----------------------------------------------------------------------------
(* Claims about the fetcher (specification Spec) *)

Loaded == replies # <<>>
FirstReply == replies[1]
IsHttp(r, st) == ~r.exc /\ r.status = st
Is5xx(r) == ~r.exc /\ r.status \in 500..599
Is4xx(r) == ~r.exc /\ r.status \in 400..499

\* C1 (as amended): after every load, fetch has returned the value under the
\* reply's "data" key with no error when the status is 200 and the body has
\* the key; (None, "API Error: <status>") for every other status, 404
\* included, the status being all that tells 404 apart; (None, the exception
\* text) when requests.get or r.json() raises; (None, "Invalid data
\* received.") for a 200 body without the key.
C1_FetchClassifies ==
  Loaded =>
    /\ FirstReply.exc => fetched.doc = NullDocument /\ fetched.err = ExceptionText
    /\ (~FirstReply.exc /\ FirstReply.status # 200) =>
         fetched.doc = NullDocument /\ fetched.err = ApiError(FirstReply.status)
    /\ (IsHttp(FirstReply, 200) /\ ~FirstReply.body.json) =>
         fetched.doc = NullDocument /\ fetched.err = ExceptionText
    /\ (IsHttp(FirstReply, 200) /\ FirstReply.body.json /\ ~FirstReply.body.hasData) =>
         fetched.doc = NullDocument /\ fetched.err = InvalidData
    /\ (IsHttp(FirstReply, 200) /\ FirstReply.body.json /\ FirstReply.body.hasData) =>
         fetched.doc = FirstReply.body.data /\ fetched.err = NoFetchError

\* C1 witness: a 404 reply has been classified as "API Error: 404"
C1_Witness ==
  Loaded /\ IsHttp(FirstReply, 404) /\ fetched.err = ApiError(404)
    /\ fetched.doc = NullDocument

\* C1 (as stated): a 404 reply yields an error of a class of its own, not
\* the error class of the other non-200 statuses.
C1_NotFoundIsItsOwnClass ==
  (Loaded /\ IsHttp(FirstReply, 404)) => fetched.err.msg # ApiError(500).msg

\* C2 (as amended): every fetch call makes exactly one request, whatever the
\* reply: a 5xx reply, like a 4xx reply or a network exception, ends the call
\* after the first attempt, with "API Error: <status>" for 5xx.
C2_OneRequestPerCall ==
  Loaded =>
    /\ fetched.requests = 1
    /\ Is5xx(FirstReply) => fetched.err = ApiError(FirstReply.status)

\* C2 witness: a 503 reply ended the call after one request although the
\* upstream had a further reply ready
C2_Witness ==
  Loaded /\ IsHttp(FirstReply, 503) /\ Len(replies) > 1 /\ fetched.requests = 1
    /\ fetched.err = ApiError(503)

\* C2 (as stated): a 5xx reply is followed by another request attempt.
C2_RetriesOn5xx ==
  (Loaded /\ Is5xx(FirstReply) /\ Len(replies) > 1) => fetched.requests > 1

----------------------------------------------------------------------------
(* Claims about the normalizer (specification SpecNormalize) *)

Returned == proc # Pending /\ proc.err = NoError
Rows == proc.df.rows
NRows == Len(proc.df.rows)
\* number of annual rows; the TTM row is the last one
NAnnual == NRows - 1
TtmCells == Rows[NRows]
InAnnual == raw_data.financials.annual.m
InQuarterly == raw_data.financials.quarterly.m

\* the claims' own reading of the input: an alias qualifies when it is a key
\* holding a non-empty array
Qualifies(e) == e.t = "list" /\ e.a # <<>>
FirstQualified(m, A) ==
  IF \E j \in 1..Len(A) : Qualifies(m[A[j]])
  THEN m[A[CHOOSE j \in 1..Len(A) :
             Qualifies(m[A[j]]) /\ \A h \in 1..(j - 1) : ~Qualifies(m[A[h]])]].a
  ELSE <<>>
CellAt(arr, i) == IF i <= Len(arr) THEN arr[i] ELSE Absent
LastOf(arr) == IF arr = <<>> THEN Absent ELSE arr[Len(arr)]
AllPresent(arr, lo, hi) == \A i \in lo..hi : IsNum(arr[i])
SumLastFour(arr) ==
  IF Len(arr) >= 4 /\ AllPresent(arr, Len(arr) - 3, Len(arr))
  THEN Num(arr[Len(arr)].n + arr[Len(arr) - 1].n + arr[Len(arr) - 2].n + arr[Len(arr) - 3].n)
  ELSE Absent
ZeroIfAbsent(v) == IF IsNum(v) THEN v.n ELSE 0
AnnualIn(c, i) == CellAt(FirstQualified(InAnnual, AnnualAliases[c]), i)
QuarterlyIn(c) == FirstQualified(InQuarterly, QuarterlyAliases[c])

\* the display column of each base column that is displayed
Display ==
  [Revenue |-> "Revenue", GrossProfit |-> "Gross Profit", EBITDA |-> "EBITDA",
   OperatingIncome |-> "Operating Income (EBIT)", IncomeTax |-> "Income Tax",
   NetIncome |-> "Net Income", EPS |-> "EPS (Diluted)",
   OperatingCashFlow |-> "Operating Cash Flow"]

Ratios ==
  {"Return on Equity (ROE)", "Return on Invested Capital (ROIC)",
   "Return on Capital Employed (ROCE)", "Cash Return on Invested Capital (CROIC)"}

\* C3 (as amended): in every row of a returned table, annual and TTM alike,
\* NOPAT is Operating Income minus Income Tax when both are present, is
\* Operating Income itself when Income Tax is absent (tax counted as 0:
\* Operating Income 200, tax absent gives 200), and is absent when Operating
\* Income is absent.
C3_NopatPerRow ==
  Returned =>
    \A i \in 1..NRows :
      LET oi == Rows[i]["Operating Income (EBIT)"]
          tax == Rows[i]["Income Tax"]
          nopat == Rows[i]["NOPAT"]
      IN  /\ (IsNum(oi) /\ IsNum(tax)) => nopat = Num(oi.n - tax.n)
          /\ (IsNum(oi) /\ IsAbsent(tax)) => nopat = oi
          /\ IsAbsent(oi) => IsAbsent(nopat)

\* C3 witness: an annual row with Operating Income 200 and no Income Tax
\* holds NOPAT 200
C3_Witness ==
  Returned /\ NAnnual >= 1 /\ Rows[1]["Operating Income (EBIT)"] = Num(200)
    /\ IsAbsent(Rows[1]["Income Tax"]) /\ Rows[1]["NOPAT"] = Num(200)

\* C3 (as stated): with Operating Income present and Income Tax absent,
\* NOPAT is Operating Income x (1 - 0.21), i.e. 100 x NOPAT = 79 x Operating Income.
C3_FlatRateFallback ==
  Returned =>
    \A i \in 1..NRows :
      (IsNum(Rows[i]["Operating Income (EBIT)"]) /\ IsAbsent(Rows[i]["Income Tax"])) =>
        /\ IsNum(Rows[i]["NOPAT"])
        /\ 100 * Rows[i]["NOPAT"].n = 79 * Rows[i]["Operating Income (EBIT)"].n

\* C4 (as stated): for a document whose only quarterly data is its revenue
\* array, normalize returns a table whose TTM revenue is the sum of the last
\* four entries when all four are there and non-absent, and is absent
\* otherwise (array shorter than 4, or one of the last four absent).
C4_TtmSumOrAbsent ==
  (proc # Pending /\ raw_data \in TtmDocs) =>
    /\ proc.err = NoError
    /\ TtmCells["Revenue"] = SumLastFour(InQuarterly["revenue"].a)

\* C5 (as amended): the TTM value of every flow column of a returned table is
\* the sum of the last four entries of the column's quarterly array (absent
\* when the array has fewer than four), whatever the document's ttm block
\* holds: the block is never read.
C5_TtmFromQuarters ==
  Returned =>
    \A c \in DOMAIN Display : TtmCells[Display[c]] = SumLastFour(QuarterlyIn(c))

\* C5 witness: the ttm block holds 999 for revenue and the TTM row holds the
\* sum of the last four quarters instead
C5_Witness ==
  Returned /\ raw_data.financials.ttm.t = "dict"
    /\ raw_data.financials.ttm.m["revenue"] = Number(999)
    /\ Len(InQuarterly["revenue"].a) > 4
    /\ TtmCells["Revenue"] = SumLastFour(InQuarterly["revenue"].a)
    /\ IsNum(TtmCells["Revenue"])

\* C5 (as stated): when the ttm block holds a value for a metric, the TTM
\* row's value is that value.
C5_TtmBlockPreferred ==
  (Returned /\ raw_data.financials.ttm.t = "dict"
     /\ raw_data.financials.ttm.m["revenue"].t = "scalar") =>
    TtmCells["Revenue"] = raw_data.financials.ttm.m["revenue"].a[1]


\* OCF - |CapEx| of two cells, absent when either is
CashLessCapex(cfo, capex) ==
  IF IsNum(cfo) /\ IsNum(capex) THEN Num(cfo.n - (IF capex.n < 0 THEN -capex.n ELSE capex.n))
  ELSE Absent

\* C6 (as amended): in every annual row of a returned table Free Cash Flow is
\* the reported FCF when that is present and non-zero, and otherwise (reported
\* FCF 0 or absent) Operating Cash Flow minus |CapEx|, absent when either of
\* the two is absent; in the TTM row it is always TTM Operating Cash Flow
\* minus |TTM CapEx|, absent when either is absent: a reported quarterly FCF
\* is never read.
C6_FreeCashFlow ==
  Returned =>
    /\ \A i \in 1..NAnnual :
         LET reported == AnnualIn("FCFReported", i)
         IN  Rows[i]["Free Cash Flow"] =
               IF IsNum(reported) /\ reported.n # 0 THEN reported
               ELSE CashLessCapex(AnnualIn("OperatingCashFlow", i), AnnualIn("CapEx", i))
    /\ TtmCells["Free Cash Flow"] =
         CashLessCapex(SumLastFour(QuarterlyIn("OperatingCashFlow")),
                       SumLastFour(QuarterlyIn("CapEx")))

\* C6 witness: an annual row with reported FCF 0, Operating Cash Flow 200 and
\* CapEx -40 holds Free Cash Flow 160
C6_Witness ==
  Returned /\ NAnnual >= 1 /\ AnnualIn("FCFReported", 1) = Num(0)
    /\ AnnualIn("OperatingCashFlow", 1) = Num(200) /\ AnnualIn("CapEx", 1) = Num(-40)
    /\ Rows[1]["Free Cash Flow"] = Num(160)

\* C6 (as stated): in every row, the TTM row included, Free Cash Flow equals
\* the reported FCF when that is present and non-zero.
C6_ReportedFcfInEveryRow ==
  Returned =>
    /\ \A i \in 1..NAnnual :
         (IsNum(AnnualIn("FCFReported", i)) /\ AnnualIn("FCFReported", i).n # 0) =>
           Rows[i]["Free Cash Flow"] = AnnualIn("FCFReported", i)
    /\ LET reported == SumLastFour(FirstQualified(InQuarterly, AnnualAliases["FCFReported"]))
       IN  (IsNum(reported) /\ reported.n # 0) => TtmCells["Free Cash Flow"] = reported

\* numerator and denominator of each ratio of annual row i, from the input
AnnualInvested(i) ==
  Num(ZeroIfAbsent(AnnualIn("TotalDebt", i)) + ZeroIfAbsent(AnnualIn("TotalEquity", i)))
AnnualEmployed(i) ==
  IF IsNum(AnnualIn("TotalAssets", i)) /\ IsNum(AnnualIn("CurrentLiabilities", i))
  THEN Num(AnnualIn("TotalAssets", i).n - AnnualIn("CurrentLiabilities", i).n)
  ELSE Absent
AnnualNumerator(c, i) ==
  CASE c = "Return on Equity (ROE)" -> Rows[i]["Net Income"]
    [] c = "Return on Invested Capital (ROIC)" -> Rows[i]["NOPAT"]
    [] c = "Return on Capital Employed (ROCE)" -> Rows[i]["Operating Income (EBIT)"]
    [] c = "Cash Return on Invested Capital (CROIC)" -> Rows[i]["Free Cash Flow"]
AnnualDenominator(c, i) ==
  CASE c = "Return on Equity (ROE)" -> AnnualIn("TotalEquity", i)
    [] c = "Return on Invested Capital (ROIC)" -> AnnualInvested(i)
    [] c = "Return on Capital Employed (ROCE)" -> AnnualEmployed(i)
    [] c = "Cash Return on Invested Capital (CROIC)" -> AnnualInvested(i)

\* the denominators of the TTM row: the last quarterly balance-sheet values
TtmDenominator(c) ==
  LET level(k) == LastOf(QuarterlyIn(k))
  IN  CASE c = "Return on Equity (ROE)" -> level("TotalEquity")
        [] c \in {"Return on Invested Capital (ROIC)",
                  "Cash Return on Invested Capital (CROIC)"} ->
             Num(ZeroIfAbsent(level("TotalDebt")) + ZeroIfAbsent(level("TotalEquity")))
        [] c = "Return on Capital Employed (ROCE)" ->
             Num(ZeroIfAbsent(level("TotalAssets")) - ZeroIfAbsent(level("CurrentLiabilities")))

\* a document of the expected structure whose quarterly flow arrays have no
\* absent entry among their last four
IsArrayOrNothing(e) == e.t \in {"list", "missing", "null"}
Sound(doc) ==
  /\ doc.t = "dict" /\ doc.financials.t = "dict"
  /\ doc.financials.annual.t = "dict" /\ doc.financials.quarterly.t # "null"
  /\ \A k \in MetricKeys :
       IsArrayOrNothing(doc.financials.annual.m[k])
         /\ IsArrayOrNothing(doc.financials.quarterly.m[k])
  /\ LET d == doc.financials.annual.m["period_end_date"]
         y == doc.financials.annual.m["fiscal_year"]
     IN  Qualifies(d) \/ (d.t = "missing" /\ Qualifies(y))
  /\ \A c \in FlowColumns :
       LET q == FirstQualified(doc.financials.quarterly.m, QuarterlyAliases[c])
       IN  Len(q) >= 4 => AllPresent(q, Len(q) - 3, Len(q))

AxisIn ==
  IF InAnnual["period_end_date"].t # "missing" THEN InAnnual["period_end_date"].a
  ELSE InAnnual["fiscal_year"].a

SingleKeyColumns ==
  {"Revenue", "GrossProfit", "EBITDA", "OperatingIncome", "IncomeTax", "NetIncome", "EPS"}

\* C9: a returned table has one row per period-end date, in order, labelled
\* with the leading year component of the date, and the TTM row after them;
\* for an annual array arr, row i holds arr[i] for i within arr (an absent
\* entry staying absent) and absent beyond it: a short array is padded on
\* the right, its values never move to later rows.
C9_AxisAndRightPadding ==
  Returned =>
    /\ Len(proc.df.index) = Len(AxisIn) + 1
    /\ NRows = Len(AxisIn) + 1
    /\ proc.df.index[NRows] = TTM
    /\ \A i \in 1..Len(AxisIn) :
         /\ proc.df.index[i] = FY(Head(AxisIn[i]))
         /\ \A c \in SingleKeyColumns :
              LET arr == IF InAnnual[AnnualAliases[c][1]].t = "list"
                         THEN InAnnual[AnnualAliases[c][1]].a ELSE <<>>
              IN  Rows[i][Display[c]] = (IF i <= Len(arr) THEN arr[i] ELSE Absent)

\* C9 witness: revenue [100, 110] against three dates: 2021 holds 100, 2022
\* holds 110, 2023 is absent
C9_Witness ==
  Returned /\ Len(AxisIn) = 3 /\ InAnnual["revenue"] = List(<<Num(100), Num(110)>>)
    /\ proc.df.index[1] = FY(2021) /\ Rows[1]["Revenue"] = Num(100)
    /\ Rows[2]["Revenue"] = Num(110) /\ IsAbsent(Rows[3]["Revenue"])

\* C10: every base column of a returned table is the array of the first
\* alias of its ordered alias list that is a key of the annual mapping with
\* a non-empty array (an alias with an empty array is skipped for a later
\* one: cf_cfo, then cfo, then cash_flow_operating for Operating Cash Flow);
\* when no alias qualifies, the column is absent in every annual row.
C10_FirstQualifyingAlias ==
  Returned =>
    \A c \in DOMAIN Display :
      LET A == AnnualAliases[c]
          ok == {j \in 1..Len(A) : Qualifies(InAnnual[A[j]])}
      IN  \A i \in 1..NAnnual :
            IF ok = {} THEN IsAbsent(Rows[i][Display[c]])
            ELSE LET first == CHOOSE j \in ok : \A h \in ok : j <= h
                 IN  Rows[i][Display[c]] = CellAt(InAnnual[A[first]].a, i)

\* C10 witness: cf_cfo is there with an empty array, cfo and
\* cash_flow_operating both hold data, and the column is cfo's
C10_Witness ==
  Returned /\ NAnnual >= 1 /\ InAnnual["cf_cfo"] = List(<<>>)
    /\ Qualifies(InAnnual["cfo"]) /\ Qualifies(InAnnual["cash_flow_operating"])
    /\ Rows[1]["Operating Cash Flow"] = InAnnual["cfo"].a[1]
    /\ Rows[1]["Operating Cash Flow"] # InAnnual["cash_flow_operating"].a[1]

----------------------------------------------------------------------------
(* Claims about the period range (specification Spec) *)

\* C8 (as stated): whenever the page shows a range [start, end] of the
\* table's periods, the rows shown are exactly the annual rows whose fiscal
\* year (their label) lies in [start, end] inclusive, in axis order, followed
\* by the TTM row if and only if end is TTM; so their number is the number of
\* annual rows in the range, plus one when end is TTM.
C8_RangeRows ==
  view.shown =>
    LET s == view.start_period
        e == view.end_period
        idx == processed_df.index
        InRange(l) ==
          IF l = TTM THEN e = TTM
          ELSE s # TTM /\ l.year >= s.year /\ (e = TTM \/ l.year <= e.year)
        shown == view.df_slice
    IN  /\ shown.index = SelectSeq(idx, InRange)
        /\ Len(shown.rows) = Cardinality({i \in 1..Len(idx) : InRange(idx[i])})
        /\ \A k \in 1..Len(shown.rows) :
             \E i \in 1..Len(idx) : idx[i] = shown.index[k] /\ shown.rows[k] = processed_df.rows[i]

\* the labels of the displayed table are pairwise distinct
DistinctLabels ==
  \A i, j \in 1..Len(processed_df.index) :
    processed_df.index[i] = processed_df.index[j] => i = j

\* C8 on a period axis without repeated years: there the rows shown are the
\* rows of the range
C8_RangeRowsDistinctYears == DistinctLabels => C8_RangeRows

\* annual dates 2021, 2022, 2023 and the range 2021..TTM show the rows 2021,
\* 2022, 2023, TTM
C8_Example ==
  view.shown /\ view.start_period = FY(2021) /\ view.end_period = TTM
    /\ processed_df.index = <<FY(2021), FY(2022), FY(2023), TTM>>
    /\ view.df_slice.index = <<FY(2021), FY(2022), FY(2023), TTM>>
    /\ view.df_slice.rows = processed_df.rows

\* the capital bases of a row as the claim defines them, from the operands
InvestedOf(debt, equity) == Num(ZeroIfAbsent(debt) + ZeroIfAbsent(equity))
EmployedOf(assets, liab) ==
  IF IsNum(assets) /\ IsNum(liab) THEN Num(assets.n - liab.n) ELSE Absent
RatioOf(num, base) ==
  IF IsNum(num) /\ IsNum(base) /\ base.n # 0 THEN Frac(num.n, base.n) ELSE Absent

\* C13 (as stated): in every row of a returned table, TTM included, ROIC and
\* CROIC are taken over Total Debt + Total Equity with an absent operand
\* counted as 0, and ROCE over Total Assets - Current Liabilities without
\* substitution, so ROCE is absent when either of the two is absent (a base
\* of 0 left aside in the annual rows, where the division is not guarded).
C13_SameCapitalRule ==
  Returned =>
    /\ \A i \in 1..NAnnual :
         LET invested == InvestedOf(AnnualIn("TotalDebt", i), AnnualIn("TotalEquity", i))
             employed == EmployedOf(AnnualIn("TotalAssets", i),
                                    AnnualIn("CurrentLiabilities", i))
         IN  /\ invested.n # 0 =>
                  /\ Rows[i]["Return on Invested Capital (ROIC)"]
                       = RatioOf(Rows[i]["NOPAT"], invested)
                  /\ Rows[i]["Cash Return on Invested Capital (CROIC)"]
                       = RatioOf(Rows[i]["Free Cash Flow"], invested)
             /\ (IsAbsent(employed) \/ employed.n # 0) =>
                  Rows[i]["Return on Capital Employed (ROCE)"]
                    = RatioOf(Rows[i]["Operating Income (EBIT)"], employed)
    /\ LET level(k) == LastOf(QuarterlyIn(k))
           invested == InvestedOf(level("TotalDebt"), level("TotalEquity"))
           employed == EmployedOf(level("TotalAssets"), level("CurrentLiabilities"))
       IN  /\ TtmCells["Return on Invested Capital (ROIC)"]
                = RatioOf(TtmCells["NOPAT"], invested)
           /\ TtmCells["Cash Return on Invested Capital (CROIC)"]
                = RatioOf(TtmCells["Free Cash Flow"], invested)
           /\ TtmCells["Return on Capital Employed (ROCE)"]
                = RatioOf(TtmCells["Operating Income (EBIT)"], employed)

----------------------------------------------------------------------------
(* Claims about the load action and the session state (specification Spec) *)

\* the last load fetched a document (fetch returned no error)
FetchedDocument == Loaded /\ fetched.err = NoFetchError
ProcessingFailed == FetchedDocument /\ proc.err \in {NoDates, ProcessingError}

\* C11 (as stated): after every load that fetched a document, whatever the
\* document's structure, normalize has returned exactly one of (table, no
\* error) or (no table, error), and no exception has escaped the page's
\* script run that follows the load.
C11_NoEscapingException ==
  FetchedDocument =>
    /\ \/ ~proc.df.isNone /\ proc.err = NoError
       \/ proc.df.isNone /\ proc.err \in {NoDates, ProcessingError}
    /\ ~view.exception

\* C12 (as stated): after any sequence of loads, a table the page displays
\* is the one derived from the document of the most recent load.
C12_DisplayedIsLatest ==
  (Loaded /\ view.shown) =>
    /\ fetched.err = NoFetchError
    /\ proc.err = NoError
    /\ processed_df = proc.df

\* C14: in every reachable state data_loaded implies that processed_df is
\* not None, and every step that changes processed_df or meta_data is a load
\* that succeeded and writes both from its one document: processed_df is
\* that document's table and meta_data that document's metadata.
C14_TableAndMetadataTogether ==
  /\ [](data_loaded => ~processed_df.isNone)
  /\ [][(processed_df' # processed_df \/ meta_data' # meta_data) =>
          /\ fetched'.err = NoFetchError
          /\ proc'.err = NoError
          /\ raw_data' = fetched'.doc
          /\ processed_df' = proc'.df
          /\ meta_data' = GetMetadata(raw_data')]_vars

\* C14 witness: after a dark-mode toggle the session still holds the table
\* and the metadata ("Beta") of the one document of the last load
C14_Witness ==
  data_loaded /\ dark_mode /\ ~processed_df.isNone /\ proc.err = NoError
    /\ processed_df = proc.df /\ raw_data.metadata = Metadata("Beta")
    /\ meta_data = Metadata("Beta")

\* C15: a load whose fetch fails sets data_loaded to False and leaves
\* processed_df and meta_data as they were; a load whose processing fails
\* leaves data_loaded, processed_df and meta_data as they were; a dark-mode
\* toggle changes dark_mode and nothing else of the session state.
C15_FailedLoadFrame ==
  [][/\ dark_mode' # dark_mode =>
          UNCHANGED <<data_loaded, processed_df, meta_data>>
     /\ (dark_mode' = dark_mode /\ fetched'.err # NoFetchError) =>
          data_loaded' = FALSE /\ UNCHANGED <<processed_df, meta_data>>
     /\ (dark_mode' = dark_mode /\ fetched'.err = NoFetchError
           /\ proc'.err \in {NoDates, ProcessingError}) =>
          UNCHANGED <<data_loaded, processed_df, meta_data>>]_vars

\* C15 witness: a load answered 404 has set data_loaded to False and the
\* table and metadata of the earlier load are still in the session state
C15_Witness ==
  Loaded /\ IsHttp(FirstReply, 404) /\ ~data_loaded /\ ~processed_df.isNone
    /\ meta_data = Metadata("Alpha")

====
